---------------------------- MODULE Spec2Model ----------------------------
(***************************************************************************)
(* Model of src/bot.js: the Supra testnet faucet bot.                      *)
(*                                                                         *)
(* State: the two process-wide maps userRequests and userCooldowns, the    *)
(* wall clock read by Date.now(), and the command invocations in flight    *)
(* (each an async handler suspended at one of its awaits).  Node runs one  *)
(* handler segment at a time, so every action is the code between two      *)
(* awaits of one invocation.                                               *)
(*                                                                         *)
(* Time is in milliseconds since the process started (only differences of  *)
(* Date.now() values decide anything); the clock never goes back.  The     *)
(* calls into discord.js (deferReply, editReply, reply) resolve.           *)
(***************************************************************************)
EXTENDS Integers, Sequences, FiniteSets

(***************************************************************************)
(* CONFIG (bot.js:9-17) and the literals of the address regex.             *)
(***************************************************************************)
RATE_LIMIT_WINDOW == 3600000
MAX_REQUESTS_PER_HOUR == 3
COOLDOWN_BETWEEN_REQUESTS == 300000
ADDRESS_HEX_DIGITS == 64
MS_PER_MINUTE == 60000

(***************************************************************************)
(* Bounds of the model.                                                    *)
(***************************************************************************)
\* Date.now() is sampled at k cooldowns after start, k \in 0..MaxSlot, and at
\* one window after start; the readings at 0 and 1 cooldowns and at one
\* window are also sampled a millisecond later (Jitter)
MaxSlot == 3
\* number of /faucet commands the bot receives in one run
MaxCommands == 4

Users == {"u1", "u2"}
\* /faucet invocations that can be in flight at once
Slots == {1, 2}
Jitter == {0, 1}

Instants ==
    {k * COOLDOWN_BETWEEN_REQUESTS + e : k \in {0, 1}, e \in Jitter}
        \cup {k * COOLDOWN_BETWEEN_REQUESTS : k \in 2..MaxSlot}
        \cup {RATE_LIMIT_WINDOW + e : e \in Jitter}

(***************************************************************************)
(* Candidate address strings, described by what the regex looks at: the    *)
(* text before the digits, the number of hexadecimal digits after it and   *)
(* the number of other characters among or after them.                     *)
(***************************************************************************)
Addresses ==
    { [prefix |-> "0x", hex |-> ADDRESS_HEX_DIGITS, other |-> 0],
      [prefix |-> "0x", hex |-> ADDRESS_HEX_DIGITS - 1, other |-> 1] }

NoAddress == [prefix |-> "", hex |-> 0, other |-> 0]

\* bot.js:24-28  /^0x[a-fA-F0-9]{64}$/
isValidSupraAddress(address) ==
    /\ address.prefix = "0x"
    /\ address.hex = ADDRESS_HEX_DIGITS
    /\ address.other = 0

\* outcomes of the one axios.get of requestTokens
Transport == {"2xx", "error_status", "ECONNABORTED", "no_response"}

VARIABLES
    now,            \* the value Date.now() returns
    userRequests,   \* Map userId -> array of timestamps
    userCooldowns,  \* Map userId -> timestamp
    inter,          \* the /faucet invocations in flight, one record per slot
    last,           \* what the invocation that replied last did
    issued,         \* number of /faucet commands received so far
    grants          \* per user, the timestamps pushed by updateRateLimit, in order

vars == <<now, userRequests, userCooldowns, inter, last, issued, grants>>

(***************************************************************************)
(* Helpers                                                                 *)
(***************************************************************************)
RECURSIVE SelectRecent(_, _)
\* Array.prototype.filter(timestamp => t - timestamp < RATE_LIMIT_WINDOW)
SelectRecent(requests, t) ==
    IF requests = <<>> THEN <<>>
    ELSE IF t - Head(requests) < RATE_LIMIT_WINDOW
         THEN <<Head(requests)>> \o SelectRecent(Tail(requests), t)
         ELSE SelectRecent(Tail(requests), t)

\* Math.ceil(x / y) for x >= 0, y > 0
Ceil(x, y) == (x + y - 1) \div y

\* Map.prototype.set
MapSet(map, key, value) ==
    [k \in DOMAIN map \cup {key} |-> IF k = key THEN value ELSE map[k]]

(***************************************************************************)
(* Rate limiter.  The maps and the clock reading are parameters, so that   *)
(* the operators can be applied to any state.                              *)
(***************************************************************************)
Allowed == [allowed |-> TRUE, reason |-> "none", timeLeft |-> 0]
Denied(reason, timeLeft) ==
    [allowed |-> FALSE, reason |-> reason, timeLeft |-> timeLeft]

\* Faulty variant of checkRateLimit: the quota test comes before the
\* cooldown test.
checkRateLimit_QuotaFirst(reqs, cools, userId, t) ==
    LET reqs1 == IF userId \in DOMAIN reqs THEN reqs
                 ELSE MapSet(reqs, userId, <<>>)
        recentRequests == SelectRecent(reqs1[userId], t)
    IN  IF Len(recentRequests) >= MAX_REQUESTS_PER_HOUR
        THEN [decision |-> Denied("quota", 0),
              userRequests |-> reqs1, userCooldowns |-> cools]
        ELSE IF /\ userId \in DOMAIN cools
                /\ t - cools[userId] < COOLDOWN_BETWEEN_REQUESTS
        THEN [decision |-> Denied("cooldown",
                         Ceil(COOLDOWN_BETWEEN_REQUESTS - (t - cools[userId]),
                              MS_PER_MINUTE)),
              userRequests |-> reqs1, userCooldowns |-> cools]
        ELSE [decision |-> Allowed,
              userRequests |-> reqs1, userCooldowns |-> cools]

\* Faulty variant of checkRateLimit: the cooldown is compared with <=.
checkRateLimit_CooldownInclusive(reqs, cools, userId, t) ==
    IF /\ userId \in DOMAIN cools
       /\ t - cools[userId] <= COOLDOWN_BETWEEN_REQUESTS
    THEN [decision |-> Denied("cooldown",
                         Ceil(COOLDOWN_BETWEEN_REQUESTS - (t - cools[userId]),
                              MS_PER_MINUTE)),
          userRequests |-> reqs, userCooldowns |-> cools]
    ELSE LET reqs1 == IF userId \in DOMAIN reqs THEN reqs
                      ELSE MapSet(reqs, userId, <<>>)
             recentRequests == SelectRecent(reqs1[userId], t)
         IN  [decision |-> IF Len(recentRequests) >= MAX_REQUESTS_PER_HOUR
                           THEN Denied("quota", 0)
                           ELSE Allowed,
              userRequests |-> reqs1, userCooldowns |-> cools]

\* Faulty variant of checkRateLimit: counts the stored array, not the
\* filtered one.
checkRateLimit_CountsAll(reqs, cools, userId, t) ==
    IF /\ userId \in DOMAIN cools
       /\ t - cools[userId] < COOLDOWN_BETWEEN_REQUESTS
    THEN [decision |-> Denied("cooldown",
                         Ceil(COOLDOWN_BETWEEN_REQUESTS - (t - cools[userId]),
                              MS_PER_MINUTE)),
          userRequests |-> reqs, userCooldowns |-> cools]
    ELSE LET reqs1 == IF userId \in DOMAIN reqs THEN reqs
                      ELSE MapSet(reqs, userId, <<>>)
         IN  [decision |-> IF Len(reqs1[userId]) >= MAX_REQUESTS_PER_HOUR
                           THEN Denied("quota", 0)
                           ELSE Allowed,
              userRequests |-> reqs1, userCooldowns |-> cools]

\* Faulty variant of checkRateLimit: the window is compared with <=.
checkRateLimit_WindowInclusive(reqs, cools, userId, t) ==
    IF /\ userId \in DOMAIN cools
       /\ t - cools[userId] < COOLDOWN_BETWEEN_REQUESTS
    THEN [decision |-> Denied("cooldown",
                         Ceil(COOLDOWN_BETWEEN_REQUESTS - (t - cools[userId]),
                              MS_PER_MINUTE)),
          userRequests |-> reqs, userCooldowns |-> cools]
    ELSE LET reqs1 == IF userId \in DOMAIN reqs THEN reqs
                      ELSE MapSet(reqs, userId, <<>>)
             recentRequests ==
                 SelectSeq(reqs1[userId],
                           LAMBDA ts : t - ts <= RATE_LIMIT_WINDOW)
         IN  [decision |-> IF Len(recentRequests) >= MAX_REQUESTS_PER_HOUR
                           THEN Denied("quota", 0)
                           ELSE Allowed,
              userRequests |-> reqs1, userCooldowns |-> cools]

\* Faulty variant of checkRateLimit: quota compared with > instead of >=.
checkRateLimit_QuotaOffByOne(reqs, cools, userId, t) ==
    IF /\ userId \in DOMAIN cools
       /\ t - cools[userId] < COOLDOWN_BETWEEN_REQUESTS
    THEN [decision |-> Denied("cooldown",
                         Ceil(COOLDOWN_BETWEEN_REQUESTS - (t - cools[userId]),
                              MS_PER_MINUTE)),
          userRequests |-> reqs, userCooldowns |-> cools]
    ELSE LET reqs1 == IF userId \in DOMAIN reqs THEN reqs
                      ELSE MapSet(reqs, userId, <<>>)
             recentRequests == SelectRecent(reqs1[userId], t)
         IN  [decision |-> IF Len(recentRequests) > MAX_REQUESTS_PER_HOUR
                           THEN Denied("quota", 0)
                           ELSE Allowed,
              userRequests |-> reqs1, userCooldowns |-> cools]

\* Faulty variant of checkRateLimit: the cooldown test is missing.
checkRateLimit_NoCooldown(reqs, cools, userId, t) ==
    LET reqs1 == IF userId \in DOMAIN reqs THEN reqs
                 ELSE MapSet(reqs, userId, <<>>)
        recentRequests == SelectRecent(reqs1[userId], t)
    IN  [decision |-> IF Len(recentRequests) >= MAX_REQUESTS_PER_HOUR
                      THEN Denied("quota", 0)
                      ELSE Allowed,
         userRequests |-> reqs1, userCooldowns |-> cools]

\* Faulty variant of checkRateLimit: stores the filtered array back.
checkRateLimit_Pruning(reqs, cools, userId, t) ==
    IF /\ userId \in DOMAIN cools
       /\ t - cools[userId] < COOLDOWN_BETWEEN_REQUESTS
    THEN [decision |-> Denied("cooldown",
                         Ceil(COOLDOWN_BETWEEN_REQUESTS - (t - cools[userId]),
                              MS_PER_MINUTE)),
          userRequests |-> reqs, userCooldowns |-> cools]
    ELSE LET reqs1 == IF userId \in DOMAIN reqs THEN reqs
                      ELSE MapSet(reqs, userId, <<>>)
             recentRequests == SelectRecent(reqs1[userId], t)
         IN  [decision |-> IF Len(recentRequests) >= MAX_REQUESTS_PER_HOUR
                           THEN Denied("quota", 0)
                           ELSE Allowed,
              userRequests |-> MapSet(reqs1, userId, recentRequests),
              userCooldowns |-> cools]

\* bot.js:31-56.  Returns the decision and the two maps as the call leaves them.
checkRateLimit(reqs, cools, userId, t) ==
    IF /\ userId \in DOMAIN cools
       /\ t - cools[userId] < COOLDOWN_BETWEEN_REQUESTS
    THEN [decision |-> Denied("cooldown",
                         Ceil(COOLDOWN_BETWEEN_REQUESTS - (t - cools[userId]),
                              MS_PER_MINUTE)),
          userRequests |-> reqs, userCooldowns |-> cools]
    ELSE LET reqs1 == IF userId \in DOMAIN reqs THEN reqs
                      ELSE MapSet(reqs, userId, <<>>)
             recentRequests == SelectRecent(reqs1[userId], t)
         IN  [decision |-> IF Len(recentRequests) >= MAX_REQUESTS_PER_HOUR
                           THEN Denied("quota", 0)
                           ELSE Allowed,
              userRequests |-> reqs1, userCooldowns |-> cools]

\* Faulty variant of updateRateLimit: one last-request time for all users.
updateRateLimit_SharedCooldown(reqs, cools, userId, t) ==
    LET reqs1 == IF userId \in DOMAIN reqs THEN reqs
                 ELSE MapSet(reqs, userId, <<>>)
        requests == Append(reqs1[userId], t)
        recentRequests == SelectRecent(requests, t)
    IN  [userRequests |-> MapSet(reqs1, userId, recentRequests),
         userCooldowns |-> [k \in DOMAIN cools \cup {userId} |-> t]]

\* Faulty variant of updateRateLimit: the array is stored without filtering.
updateRateLimit_NoPrune(reqs, cools, userId, t) ==
    LET reqs1 == IF userId \in DOMAIN reqs THEN reqs
                 ELSE MapSet(reqs, userId, <<>>)
        requests == Append(reqs1[userId], t)
    IN  [userRequests |-> MapSet(reqs1, userId, requests),
         userCooldowns |-> MapSet(cools, userId, t)]

\* Faulty variant of updateRateLimit: unshift instead of push.
updateRateLimit_Prepend(reqs, cools, userId, t) ==
    LET reqs1 == IF userId \in DOMAIN reqs THEN reqs
                 ELSE MapSet(reqs, userId, <<>>)
        requests == <<t>> \o reqs1[userId]
        recentRequests == SelectRecent(requests, t)
    IN  [userRequests |-> MapSet(reqs1, userId, recentRequests),
         userCooldowns |-> MapSet(cools, userId, t)]

\* Faulty variant of updateRateLimit: does nothing while the user is cooling down.
updateRateLimit_SkipsInCooldown(reqs, cools, userId, t) ==
    IF /\ userId \in DOMAIN cools
       /\ t - cools[userId] < COOLDOWN_BETWEEN_REQUESTS
    THEN [userRequests |-> reqs, userCooldowns |-> cools]
    ELSE LET reqs1 == IF userId \in DOMAIN reqs THEN reqs
                      ELSE MapSet(reqs, userId, <<>>)
             requests == Append(reqs1[userId], t)
             recentRequests == SelectRecent(requests, t)
         IN  [userRequests |-> MapSet(reqs1, userId, recentRequests),
              userCooldowns |-> MapSet(cools, userId, t)]

\* bot.js:59-75.  Returns both maps as the call leaves them.
updateRateLimit(reqs, cools, userId, t) ==
    LET reqs1 == IF userId \in DOMAIN reqs THEN reqs
                 ELSE MapSet(reqs, userId, <<>>)
        requests == Append(reqs1[userId], t)
        recentRequests == SelectRecent(requests, t)
    IN  [userRequests |-> MapSet(reqs1, userId, recentRequests),
         userCooldowns |-> MapSet(cools, userId, t)]

\* Faulty variant of requestTokens: no try block around axios.get, so a
\* rejection of the request leaves the function as an exception.
requestTokens_NoCatch(outcome) ==
    CASE outcome = "2xx" ->
            [success |-> TRUE, error |-> "none", thrown |-> FALSE]
      [] OTHER ->
            [success |-> FALSE, error |-> "none", thrown |-> TRUE]

\* bot.js:78-113.  The result object for each outcome of axios.get; thrown
\* tells whether the call ends with an exception instead of a result.
requestTokens(outcome) ==
    CASE outcome = "2xx" ->
            [success |-> TRUE, error |-> "none", thrown |-> FALSE]
      [] outcome = "error_status" ->
            [success |-> FALSE, error |-> "api_error", thrown |-> FALSE]
      [] outcome = "ECONNABORTED" ->
            [success |-> FALSE, error |-> "timeout", thrown |-> FALSE]
      [] OTHER ->
            [success |-> FALSE, error |-> "network_error", thrown |-> FALSE]

(***************************************************************************)
(* Identifiers bound at the top level of bot.js (bot.js:1-5, 9, 20, 21,    *)
(* 116, 125 and the function declarations).  Reading any other bare        *)
(* identifier throws a ReferenceError.                                     *)
(***************************************************************************)
ModuleBindings ==
    {"Client", "GatewayIntentBits", "EmbedBuilder", "SlashCommandBuilder",
     "REST", "Routes", "axios", "fs", "path", "dotenv", "CONFIG",
     "userRequests", "userCooldowns", "client", "commands",
     "isValidSupraAddress", "checkRateLimit", "updateRateLimit",
     "requestTokens", "registerCommands", "handleFaucetCommand",
     "handleHelpCommand", "handleStatusCommand"}

NoReport == [requestsThisHour |-> -1, nextRequestTime |-> -1]

\* bot.js:335-384, up to the reply.  nextRequestTime 0 stands for null.
handleStatusCommand(reqs, cools, userId, t) ==
    LET requestsThisHour ==
            IF userId \in DOMAIN reqs
            THEN Len(SelectRecent(reqs[userId], t)) ELSE 0
        nextRequestTime ==
            IF /\ userId \in DOMAIN cools
               /\ t < cools[userId] + COOLDOWN_BETWEEN_REQUESTS
            THEN cools[userId] + COOLDOWN_BETWEEN_REQUESTS ELSE 0
    IN  IF "userDailyRequests" \in ModuleBindings
        THEN [thrown |-> FALSE,
              report |-> [requestsThisHour |-> requestsThisHour,
                          nextRequestTime |-> nextRequestTime]]
        ELSE [thrown |-> TRUE, report |-> NoReport]

(***************************************************************************)
(* Invocations                                                             *)
(***************************************************************************)
Idle == [pc |-> "idle", user |-> "none", address |-> NoAddress]

\* the record of an invocation: the reply sent and the calls made on the way
Nothing ==
    [cmd |-> "none", reply |-> "none", reason |-> "none",
     result |-> "none", report |-> NoReport,
     checks |-> 0, calls |-> 0, records |-> 0]

\* invocations take the lowest free slot
FreeSlot(i) ==
    /\ inter[i].pc = "idle"
    /\ \A j \in Slots : j < i => inter[j].pc # "idle"

\* the user has a faucet command between its first and its last step
Busy(u) == \E j \in Slots : inter[j].user = u

Init ==
    /\ now = 0
    /\ userRequests = <<>>
    /\ userCooldowns = <<>>
    /\ inter = [i \in Slots |-> Idle]
    /\ last = Nothing
    /\ issued = 0
    /\ grants = [u \in Users |-> <<>>]

\* Date.now() advances
Tick ==
    /\ \E t \in Instants : t > now /\ now' = t
    /\ UNCHANGED <<userRequests, userCooldowns, inter, last, issued, grants>>

\* bot.js:188-189, 213-218: /faucet arrives; the handler runs to deferReply
FaucetStart(i, u, a) ==
    /\ FreeSlot(i)
    /\ issued < MaxCommands
    /\ issued' = issued + 1
    /\ inter' = [inter EXCEPT ![i] = [pc |-> "deferring", user |-> u, address |-> a]]
    /\ UNCHANGED <<now, userRequests, userCooldowns, last, grants>>

\* Faulty variant of FaucetCheck: the rate limit is consulted before the
\* address is validated.
FaucetCheck_CheckFirst(i) ==
    /\ inter[i].pc = "deferring"
    /\ LET userId == inter[i].user
           rateLimitCheck == checkRateLimit(userRequests, userCooldowns, userId, now)
           mine == [Nothing EXCEPT !.cmd = "faucet", !.checks = 1]
       IN  /\ userRequests' = rateLimitCheck.userRequests
           /\ userCooldowns' = rateLimitCheck.userCooldowns
           /\ IF ~isValidSupraAddress(inter[i].address)
              THEN /\ inter' = [inter EXCEPT ![i] = Idle]
                   /\ last' = [mine EXCEPT !.reply = "invalid_address"]
              ELSE IF ~rateLimitCheck.decision.allowed
                   THEN /\ inter' = [inter EXCEPT ![i] = Idle]
                        /\ last' = [mine EXCEPT
                                !.reply = "rate_limited",
                                !.reason = rateLimitCheck.decision.reason]
                   ELSE /\ inter' = [inter EXCEPT ![i].pc = "awaitFaucet"]
                        /\ UNCHANGED last
    /\ UNCHANGED <<now, issued, grants>>

\* Faulty variant of FaucetCheck: the denial branch does not return, so the
\* faucet is called all the same.
FaucetCheck_DenialFallsThrough(i) ==
    /\ inter[i].pc = "deferring"
    /\ LET userId == inter[i].user
           rateLimitCheck == checkRateLimit(userRequests, userCooldowns, userId, now)
           mine == [Nothing EXCEPT !.cmd = "faucet"]
       IN  IF ~isValidSupraAddress(inter[i].address)
           THEN /\ inter' = [inter EXCEPT ![i] = Idle]
                /\ last' = [mine EXCEPT !.reply = "invalid_address"]
                /\ UNCHANGED <<userRequests, userCooldowns>>
           ELSE /\ userRequests' = rateLimitCheck.userRequests
                /\ userCooldowns' = rateLimitCheck.userCooldowns
                /\ inter' = [inter EXCEPT ![i].pc = "awaitFaucet"]
                /\ IF ~rateLimitCheck.decision.allowed
                   THEN last' = [mine EXCEPT
                                !.reply = "rate_limited",
                                !.reason = rateLimitCheck.decision.reason,
                                !.checks = 1, !.calls = 1]
                   ELSE UNCHANGED last
    /\ UNCHANGED <<now, issued, grants>>

\* Faulty variant of FaucetCheck: the grant is recorded when the check
\* passes, before the faucet is called.
FaucetCheck_RecordsEarly(i) ==
    /\ inter[i].pc = "deferring"
    /\ LET userId == inter[i].user
           rateLimitCheck == checkRateLimit(userRequests, userCooldowns, userId, now)
           upd == updateRateLimit(rateLimitCheck.userRequests,
                                  rateLimitCheck.userCooldowns, userId, now)
           mine == [Nothing EXCEPT !.cmd = "faucet"]
       IN  IF ~isValidSupraAddress(inter[i].address)
           THEN /\ inter' = [inter EXCEPT ![i] = Idle]
                /\ last' = [mine EXCEPT !.reply = "invalid_address"]
                /\ UNCHANGED <<userRequests, userCooldowns, grants>>
           ELSE IF ~rateLimitCheck.decision.allowed
                THEN /\ userRequests' = rateLimitCheck.userRequests
                     /\ userCooldowns' = rateLimitCheck.userCooldowns
                     /\ inter' = [inter EXCEPT ![i] = Idle]
                     /\ last' = [mine EXCEPT
                             !.reply = "rate_limited",
                             !.reason = rateLimitCheck.decision.reason,
                             !.checks = 1]
                     /\ UNCHANGED grants
                ELSE /\ userRequests' = upd.userRequests
                     /\ userCooldowns' = upd.userCooldowns
                     /\ grants' = [grants EXCEPT ![userId] = Append(@, now)]
                     /\ inter' = [inter EXCEPT ![i].pc = "awaitFaucet"]
                     /\ UNCHANGED last
    /\ UNCHANGED <<now, issued>>

\* bot.js:220-251: deferReply has resolved; validate the address, check the
\* rate limit, call the faucet
FaucetCheck(i) ==
    /\ inter[i].pc = "deferring"
    /\ LET userId == inter[i].user
           rateLimitCheck == checkRateLimit(userRequests, userCooldowns, userId, now)
           mine == [Nothing EXCEPT !.cmd = "faucet"]
       IN  IF ~isValidSupraAddress(inter[i].address)
           THEN /\ inter' = [inter EXCEPT ![i] = Idle]
                /\ last' = [mine EXCEPT !.reply = "invalid_address"]
                /\ UNCHANGED <<userRequests, userCooldowns>>
           ELSE /\ userRequests' = rateLimitCheck.userRequests
                /\ userCooldowns' = rateLimitCheck.userCooldowns
                /\ IF ~rateLimitCheck.decision.allowed
                   THEN /\ inter' = [inter EXCEPT ![i] = Idle]
                        /\ last' = [mine EXCEPT
                                !.reply = "rate_limited",
                                !.reason = rateLimitCheck.decision.reason,
                                !.checks = 1]
                   ELSE /\ inter' = [inter EXCEPT ![i].pc = "awaitFaucet"]
                        /\ UNCHANGED last
    /\ UNCHANGED <<now, issued, grants>>

\* Faulty variant of FaucetResponse: updateRateLimit is called before the
\* result is looked at.
FaucetResponse_RecordsAlways(i, outcome) ==
    /\ inter[i].pc = "awaitFaucet"
    /\ LET result == requestTokens(outcome)
           userId == inter[i].user
           mine == [Nothing EXCEPT !.cmd = "faucet", !.checks = 1, !.calls = 1,
                                   !.records = 1]
           upd == updateRateLimit(userRequests, userCooldowns, userId, now)
       IN  /\ userRequests' = upd.userRequests
           /\ userCooldowns' = upd.userCooldowns
           /\ grants' = [grants EXCEPT ![userId] = Append(@, now)]
           /\ IF result.success
              THEN last' = [mine EXCEPT !.result = "success", !.reply = "success"]
              ELSE last' = [mine EXCEPT !.result = result.error, !.reply = "failed"]
    /\ inter' = [inter EXCEPT ![i] = Idle]
    /\ UNCHANGED <<now, issued>>

\* bot.js:251-297: axios.get has settled; record the grant on success, reply.
\* An exception out of requestTokens goes to the catch of bot.js:196-208,
\* which follows up on the deferred interaction.
FaucetResponse(i, outcome) ==
    /\ inter[i].pc = "awaitFaucet"
    /\ LET result == requestTokens(outcome)
           userId == inter[i].user
           mine == [Nothing EXCEPT !.cmd = "faucet", !.checks = 1, !.calls = 1]
           upd == updateRateLimit(userRequests, userCooldowns, userId, now)
       IN  IF result.thrown
           THEN /\ last' = [mine EXCEPT !.result = "thrown",
                                        !.reply = "bot_error"]
                /\ UNCHANGED <<userRequests, userCooldowns, grants>>
           ELSE
           IF result.success
           THEN /\ userRequests' = upd.userRequests
                /\ userCooldowns' = upd.userCooldowns
                /\ grants' = [grants EXCEPT ![userId] = Append(@, now)]
                /\ last' = [mine EXCEPT !.result = "success", !.records = 1,
                                        !.reply = "success"]
           ELSE /\ last' = [mine EXCEPT !.result = result.error,
                                        !.reply = "failed"]
                /\ UNCHANGED <<userRequests, userCooldowns, grants>>
    /\ inter' = [inter EXCEPT ![i] = Idle]
    /\ UNCHANGED <<now, issued>>

\* bot.js:190-191, 301-332
HelpCommand(u) ==
    /\ last' = [Nothing EXCEPT !.cmd = "faucet-help", !.reply = "help"]
    /\ UNCHANGED <<now, userRequests, userCooldowns, inter, issued, grants>>

\* Faulty variant of StatusCommand: the handler is called outside the try
\* block, so its exception reaches nobody and nothing is sent.
StatusCommand_NoCatch(u) ==
    /\ LET st == handleStatusCommand(userRequests, userCooldowns, u, now)
       IN  last' = [Nothing EXCEPT
                       !.cmd = "faucet-status",
                       !.reply = IF st.thrown THEN "none" ELSE "status",
                       !.report = st.report]
    /\ UNCHANGED <<now, userRequests, userCooldowns, inter, issued, grants>>

\* Faulty variant of StatusCommand: the status is taken from checkRateLimit.
StatusCommand_ViaCheck(u) ==
    /\ LET st == handleStatusCommand(userRequests, userCooldowns, u, now)
           rateLimitCheck == checkRateLimit(userRequests, userCooldowns, u, now)
       IN  /\ last' = [Nothing EXCEPT
                          !.cmd = "faucet-status",
                          !.reply = IF st.thrown THEN "bot_error" ELSE "status",
                          !.report = st.report,
                          !.checks = 1]
           /\ userRequests' = rateLimitCheck.userRequests
           /\ userCooldowns' = rateLimitCheck.userCooldowns
    /\ UNCHANGED <<now, inter, issued, grants>>

\* bot.js:192-209, 335-384: an exception of the handler is answered with the
\* error embed of the catch block
StatusCommand(u) ==
    /\ LET st == handleStatusCommand(userRequests, userCooldowns, u, now)
       IN  last' = [Nothing EXCEPT
                       !.cmd = "faucet-status",
                       !.reply = IF st.thrown THEN "bot_error" ELSE "status",
                       !.report = st.report]
    /\ UNCHANGED <<now, userRequests, userCooldowns, inter, issued, grants>>

Next ==
    \/ Tick
    \/ \E i \in Slots, u \in Users, a \in Addresses : FaucetStart(i, u, a)
    \/ \E i \in Slots : FaucetCheck(i)
    \/ \E i \in Slots, o \in Transport : FaucetResponse(i, o)
    \/ \E u \in Users : HelpCommand(u)
    \/ \E u \in Users : StatusCommand(u)

Spec == Init /\ [][Next]_vars

(***************************************************************************)
(* Serialized execution: a user's faucet command starts only when no       *)
(* faucet command of that user is in flight.                               *)
(***************************************************************************)
SerialFaucetStart(i, u, a) == ~Busy(u) /\ FaucetStart(i, u, a)

NextSerial ==
    \/ Tick
    \/ \E i \in Slots, u \in Users, a \in Addresses : SerialFaucetStart(i, u, a)
    \/ \E i \in Slots : FaucetCheck(i)
    \/ \E i \in Slots, o \in Transport : FaucetResponse(i, o)
    \/ \E u \in Users : HelpCommand(u)
    \/ \E u \in Users : StatusCommand(u)

SpecSerial == Init /\ [][NextSerial]_vars

(***************************************************************************)
(* Scheduling: a suspended handler is resumed once the promise it awaits   *)
(* settles.  deferReply resolves, and axios.get settles because of its     *)
(* timeout (bot.js:81), so neither step of an invocation waits forever.    *)
(***************************************************************************)
SpecFair ==
    /\ Spec
    /\ \A i \in Slots : WF_vars(FaucetCheck(i))
    /\ \A i \in Slots : WF_vars(\E o \in Transport : FaucetResponse(i, o))

(***************************************************************************)
(* Properties                                                              *)
(***************************************************************************)
\* the timestamps stored for a user
Timestamps(reqs, u) == IF u \in DOMAIN reqs THEN reqs[u] ELSE <<>>

\* number of grants recorded for u with a timestamp in the window ending at t
GrantsInWindow(u, t) ==
    Cardinality({k \in 1..Len(grants[u]) :
                    /\ grants[u][k] <= t
                    /\ t - grants[u][k] < RATE_LIMIT_WINDOW})

\* slot i takes the step of its invocation that follows the faucet call
ResponseStep(i) == inter[i].pc = "awaitFaucet" /\ inter'[i] = Idle
\* slot i takes the step of its invocation that follows deferReply
CheckStep(i) == inter[i].pc = "deferring" /\ inter'[i] # inter[i]

\* C1: when a user's faucet commands run one after the other, no window of
\* RATE_LIMIT_WINDOW ms holds more than MAX_REQUESTS_PER_HOUR recorded grants
\* of the user, and the stored array never exceeds MAX_REQUESTS_PER_HOUR.
C1_QuotaSafetySerial ==
    \A u \in Users :
        /\ \A t \in Instants : GrantsInWindow(u, t) <= MAX_REQUESTS_PER_HOUR
        /\ Len(Timestamps(userRequests, u)) <= MAX_REQUESTS_PER_HOUR

\* a user was granted MAX_REQUESTS_PER_HOUR + 1 times and the stored array is
\* full: the oldest grant had left the window and was dropped
C1_Witness ==
    \E u \in Users :
        /\ Len(grants[u]) = MAX_REQUESTS_PER_HOUR + 1
        /\ Len(Timestamps(userRequests, u)) = MAX_REQUESTS_PER_HOUR

\* C2: when a user's faucet commands run one after the other, consecutive
\* recorded grants of the user are at least COOLDOWN_BETWEEN_REQUESTS ms apart.
C2_CooldownSpacingSerial ==
    \A u \in Users : \A k \in 1..(Len(grants[u]) - 1) :
        grants[u][k + 1] - grants[u][k] >= COOLDOWN_BETWEEN_REQUESTS

\* a user's second grant was recorded exactly one cooldown after the first
C2_Witness ==
    \E u \in Users :
        /\ Len(grants[u]) >= 2
        /\ grants[u][2] - grants[u][1] = COOLDOWN_BETWEEN_REQUESTS

\* C3: a successful faucet call is recorded without looking at the state
\* again: the step appends the current time to the user's stored timestamps
\* and restarts the cooldown, also when another invocation of the same user
\* has recorded a grant since this one passed its check.
C3_SuccessRecordsUnconditionally ==
    [][\A i \in Slots :
          (ResponseStep(i) /\ last'.result = "success") =>
              LET u == inter[i].user
              IN  /\ userCooldowns'[u] = now
                  /\ userRequests'[u] =
                         Append(SelectRecent(Timestamps(userRequests, u), now), now)
                  /\ grants'[u] = Append(grants[u], now)]_vars

\* one user holds more than MAX_REQUESTS_PER_HOUR grants in one window, two of
\* them less than one cooldown apart
C3_Witness ==
    \E u \in Users :
        /\ GrantsInWindow(u, now) > MAX_REQUESTS_PER_HOUR
        /\ \E k \in 1..(Len(grants[u]) - 1) :
              grants[u][k + 1] - grants[u][k] < COOLDOWN_BETWEEN_REQUESTS

\* C4: the step that handles a failed faucet call changes neither map, calls
\* updateRateLimit zero times, and leaves the decision of checkRateLimit for
\* every user as it was.
C4_FailureLeavesStateUnchanged ==
    [][\A i \in Slots :
          (ResponseStep(i) /\ last'.reply = "failed") =>
              /\ userRequests' = userRequests
              /\ userCooldowns' = userCooldowns
              /\ grants' = grants
              /\ last'.records = 0
              /\ \A u \in Users :
                    checkRateLimit(userRequests', userCooldowns', u, now').decision
                      = checkRateLimit(userRequests, userCooldowns, u, now).decision
      ]_vars

\* a faucet call timed out for a user who has been granted before
C4_Witness ==
    /\ last.reply = "failed"
    /\ last.result = "timeout"
    /\ last.records = 0
    /\ userCooldowns # <<>>

\* a step writes a timestamp or a last-grant time
GrantStateWritten ==
    \/ userCooldowns' # userCooldowns
    \/ grants' # grants
    \/ /\ userRequests' # userRequests
       /\ \E u \in Users :
             Timestamps(userRequests', u) # Timestamps(userRequests, u)

\* C5: updateRateLimit runs only in the step that follows a successful faucet
\* call, once: every write of a timestamp or last-grant time is such a
\* step, such a step records exactly one grant, and replies other than the
\* success reply come from invocations that recorded nothing.
C5_RecordOnlyAfterSuccess ==
    [][/\ GrantStateWritten =>
             \E i \in Slots :
                 /\ ResponseStep(i)
                 /\ last'.result = "success"
                 /\ last'.calls = 1
                 /\ grants' = [grants EXCEPT ![inter[i].user] = Append(@, now)]
       /\ (\E i \in Slots : ResponseStep(i) /\ last'.result = "success") =>
             GrantStateWritten
       /\ last'.records = (IF last'.reply = "success" THEN 1 ELSE 0)
       /\ (last'.reply = "success") = (last'.result = "success")
      ]_vars

\* a second grant has been recorded, by an invocation whose faucet call
\* succeeded
C5_Witness ==
    /\ last.reply = "success"
    /\ last.records = 1
    /\ \E u \in Users : Len(grants[u]) >= 2

\* C6 as stated: in every state and for every user, checkRateLimit leaves
\* both maps as they are and a second call returns the same decision.
C6_CheckIsReadOnly ==
    \A u \in Users :
        LET r == checkRateLimit(userRequests, userCooldowns, u, now)
            r2 == checkRateLimit(r.userRequests, r.userCooldowns, u, now)
        IN  /\ r.userRequests = userRequests
            /\ r.userCooldowns = userCooldowns
            /\ r2.decision = r.decision

\* C6 amended: checkRateLimit never changes userCooldowns nor the timestamps
\* stored for any user; its only write creates the empty userRequests entry
\* of a user without one, when the cooldown test does not deny; a second call
\* with the same clock reading returns the same decision and writes nothing.
C6_CheckWritesOnlyEmptyEntry ==
    \A u \in Users :
        LET r == checkRateLimit(userRequests, userCooldowns, u, now)
            r2 == checkRateLimit(r.userRequests, r.userCooldowns, u, now)
        IN  /\ r.userCooldowns = userCooldowns
            /\ \A v \in Users :
                  Timestamps(r.userRequests, v) = Timestamps(userRequests, v)
            /\ \/ r.userRequests = userRequests
               \/ /\ u \notin DOMAIN userRequests
                  /\ r.decision.reason # "cooldown"
                  /\ r.userRequests = MapSet(userRequests, u, <<>>)
            /\ (u \notin DOMAIN userRequests /\ r.decision.reason # "cooldown")
                  => u \in DOMAIN r.userRequests
            /\ r2.decision = r.decision
            /\ r2.userRequests = r.userRequests
            /\ r2.userCooldowns = r.userCooldowns

\* a check has run for a user who had no entry: the entry exists, empty, while
\* the invocation waits for the faucet
C6_Witness ==
    \E i \in Slots :
        /\ inter[i].pc = "awaitFaucet"
        /\ inter[i].user \in DOMAIN userRequests
        /\ userRequests[inter[i].user] = <<>>
        /\ inter[i].user \notin DOMAIN userCooldowns

\* C7: a faucet command that checkRateLimit denies ends in that step with the
\* rate-limit reply, without a faucet call and without a change to either map.
C7_DenialChangesNothing ==
    [][\A i \in Slots :
          (/\ CheckStep(i)
           /\ isValidSupraAddress(inter[i].address)
           /\ ~checkRateLimit(userRequests, userCooldowns,
                               inter[i].user, now).decision.allowed) =>
              /\ inter'[i] = Idle
              /\ last'.reply = "rate_limited"
              /\ last'.reason \in {"cooldown", "quota"}
              /\ last'.calls = 0
              /\ last'.records = 0
              /\ userRequests' = userRequests
              /\ userCooldowns' = userCooldowns
              /\ grants' = grants]_vars

\* a command was denied for the quota
C7_Witness ==
    /\ last.reply = "rate_limited"
    /\ last.reason = "quota"
    /\ last.calls = 0
    /\ \E u \in Users : Len(Timestamps(userRequests, u)) = MAX_REQUESTS_PER_HOUR

\* C8: a faucet command with an invalid address ends with the validation
\* reply, without a call of checkRateLimit, without a faucet call and
\* without a change to either map.
C8_InvalidAddressTouchesNothing ==
    [][\A i \in Slots :
          (CheckStep(i) /\ ~isValidSupraAddress(inter[i].address)) =>
              /\ inter'[i] = Idle
              /\ last'.reply = "invalid_address"
              /\ last'.checks = 0
              /\ last'.calls = 0
              /\ last'.records = 0
              /\ userRequests' = userRequests
              /\ userCooldowns' = userCooldowns
              /\ grants' = grants]_vars

\* the validation reply was sent and no user has an entry
C8_Witness ==
    /\ last.reply = "invalid_address"
    /\ last.checks = 0
    /\ userRequests = <<>>
    /\ userCooldowns = <<>>

\* C9: a status command changes neither map, calls neither updateRateLimit
\* nor the faucet and starts no faucet invocation, whether it throws or not.
C9_StatusIsReadOnly ==
    [][(last' # last /\ last'.cmd = "faucet-status") =>
          /\ userRequests' = userRequests
          /\ userCooldowns' = userCooldowns
          /\ grants' = grants
          /\ inter' = inter
          /\ last'.records = 0
          /\ last'.calls = 0]_vars

\* the status handler threw for a user population with and without entries
C9_Witness ==
    /\ last.cmd = "faucet-status"
    /\ last.reply = "bot_error"
    /\ userCooldowns # <<>>
    /\ DOMAIN userRequests # Users

\* C10 as stated: every status command is answered with the status report
\* (requests in the current window, end of the cooldown if any).
C10_StatusRepliesWithReport ==
    last.cmd = "faucet-status" =>
        /\ last.reply = "status"
        /\ last.report.requestsThisHour >= 0
        /\ last.report.nextRequestTime >= 0

\* the replies a command can end with
FaucetReplies == {"invalid_address", "rate_limited", "success", "failed", "bot_error"}

\* C11: every invocation of /faucet, /faucet-help and /faucet-status is
\* answered: a handled command always has a reply, a /faucet invocation
\* leaves its slot only with a reply, and every /faucet invocation in flight
\* eventually leaves its slot.
C11_EveryInvocationReplies ==
    /\ [](last.cmd # "none" => last.reply # "none")
    /\ [](last.cmd = "faucet-help" => last.reply = "help")
    /\ [](last.cmd = "faucet-status" => last.reply \in {"status", "bot_error"})
    /\ [][\A i \in Slots :
            (inter[i].pc # "idle" /\ inter'[i].pc = "idle") =>
                (last'.cmd = "faucet" /\ last'.reply \in FaucetReplies)]_vars
    /\ \A i \in Slots : (inter[i].pc # "idle") ~> (inter[i].pc = "idle")

\* the exception of the status handler was answered while a faucet call of
\* another invocation is pending
C11_Witness ==
    /\ last.cmd = "faucet-status"
    /\ last.reply = "bot_error"
    /\ \E i \in Slots : inter[i].pc = "awaitFaucet"

\* the results requestTokens returns for a failed request
Failures == {"api_error", "timeout", "network_error"}

\* C13: requestTokens never throws: each outcome of the GET becomes a
\* returned result (2xx: success, error status: API error, ECONNABORTED:
\* timeout, anything else: network error), so the step that resumes a
\* /faucet invocation after the GET never ends in the catch-all reply.
C13_RequestTokensNeverThrows ==
    /\ [](/\ \A o \in Transport : ~requestTokens(o).thrown
          /\ requestTokens("2xx").success
          /\ \A o \in Transport \ {"2xx"} : ~requestTokens(o).success
          /\ requestTokens("error_status").error = "api_error"
          /\ requestTokens("ECONNABORTED").error = "timeout"
          /\ requestTokens("no_response").error = "network_error")
    /\ [][\A i \in Slots :
            ResponseStep(i) =>
                /\ last'.reply \in {"success", "failed"}
                /\ last'.result \in Failures \cup {"success"}
                /\ (last'.reply = "failed") = (last'.result \in Failures)]_vars

\* an unreachable faucet service was reported as a failed request
C13_Witness ==
    /\ last.cmd = "faucet"
    /\ last.reply = "failed"
    /\ last.result = "network_error"

\* the step belongs to an invocation of user u
StepOf(u) ==
    \E i \in Slots : inter'[i] # inter[i] /\ u \in {inter[i].user, inter'[i].user}

\* the rate-limit decision for u at time t in the current state
Decision(u, t) == checkRateLimit(userRequests, userCooldowns, u, t).decision

\* C12: a step of an invocation of one user leaves every other user's
\* stored timestamps, last-request time and recorded grants unchanged, and
\* with them the decision the limiter gives the other user at any time.
C12_PerUserIsolation ==
    [][\A b \in Users :
          ~StepOf(b) =>
              /\ (b \in DOMAIN userRequests') = (b \in DOMAIN userRequests)
              /\ Timestamps(userRequests', b) = Timestamps(userRequests, b)
              /\ (b \in DOMAIN userCooldowns') = (b \in DOMAIN userCooldowns)
              /\ (b \in DOMAIN userCooldowns =>
                     userCooldowns'[b] = userCooldowns[b])
              /\ grants'[b] = grants[b]
              /\ \A t \in Instants :
                     checkRateLimit(userRequests', userCooldowns', b, t).decision
                         = Decision(b, t)]_vars

\* one user is denied with several grants in the window while another user,
\* who has a grant too, is allowed
C12_Witness ==
    \E a, b \in Users :
        /\ a # b
        /\ Len(Timestamps(userRequests, a)) >= 2
        /\ ~Decision(a, now).allowed
        /\ b \in DOMAIN userCooldowns
        /\ Decision(b, now).allowed

\* number of timestamps stored for u that are less than a window older than t
Fresh(u, t) ==
    LET ts == Timestamps(userRequests, u)
    IN  Cardinality({k \in 1..Len(ts) : t - ts[k] < RATE_LIMIT_WINDOW})

\* u has MAX_REQUESTS_PER_HOUR stored timestamps, each more than a cooldown
\* after the one before, the last one is the last-request time, and at time t
\* all of them are inside the window
SpacedQuota(u, t) ==
    LET ts == Timestamps(userRequests, u)
    IN  /\ u \in DOMAIN userCooldowns
        /\ Len(ts) = MAX_REQUESTS_PER_HOUR
        /\ \A k \in 1..(Len(ts) - 1) :
               ts[k + 1] - ts[k] >= COOLDOWN_BETWEEN_REQUESTS + 1
        /\ ts[Len(ts)] = userCooldowns[u]
        /\ Fresh(u, t) = MAX_REQUESTS_PER_HOUR

\* the times "immediately after" a grant recorded at t0
JustAfter(t0) == {t0, t0 + 1}

\* C14 as stated: after MAX_REQUESTS_PER_HOUR grants spaced by more than a
\* cooldown inside one window, a check immediately after the last grant is
\* denied for the quota.
C14_QuotaDenialRightAfterLastGrant ==
    \A u \in Users :
        \A t \in JustAfter(now) :
            (SpacedQuota(u, t) /\ userCooldowns[u] = now) =>
                Decision(u, t).reason = "quota"

\* C14, amended: after MAX_REQUESTS_PER_HOUR grants spaced by more than a
\* cooldown inside one window, a check immediately after the last grant is
\* denied for the cooldown; the quota denial is what a check gets from the
\* end of that cooldown on, as long as all the grants are in the window.
C14_CooldownDenialRightAfterLastGrant ==
    \A u \in Users :
        /\ \A t \in JustAfter(now) :
               (SpacedQuota(u, t) /\ userCooldowns[u] = now) =>
                   Decision(u, t) =
                       Denied("cooldown",
                              Ceil(COOLDOWN_BETWEEN_REQUESTS - (t - now),
                                   MS_PER_MINUTE))
        /\ \A t \in {now + COOLDOWN_BETWEEN_REQUESTS,
                      now + COOLDOWN_BETWEEN_REQUESTS + 1} :
               (SpacedQuota(u, t) /\ userCooldowns[u] = now) =>
                   Decision(u, t) = Denied("quota", 0)

\* the third spaced grant of a user has just been recorded
C14_Witness ==
    \E u \in Users :
        /\ SpacedQuota(u, now)
        /\ userCooldowns[u] = now
        /\ last.reply = "success"

\* C15: when a user is inside the cooldown and has MAX_REQUESTS_PER_HOUR
\* timestamps in the window, the check is denied for the cooldown; a quota
\* denial is given only when the cooldown is over.
C15_CooldownPrecedence ==
    \A u \in Users :
        \A t \in {x \in Instants : x >= now} :
            LET cooling == /\ u \in DOMAIN userCooldowns
                           /\ t - userCooldowns[u] < COOLDOWN_BETWEEN_REQUESTS
            IN  /\ (cooling /\ Fresh(u, t) >= MAX_REQUESTS_PER_HOUR) =>
                       Decision(u, t).reason = "cooldown"
                /\ Decision(u, t).reason = "quota" => ~cooling

\* a user is inside the cooldown with a full window
C15_Witness ==
    \E u \in Users :
        /\ u \in DOMAIN userCooldowns
        /\ now - userCooldowns[u] < COOLDOWN_BETWEEN_REQUESTS
        /\ Fresh(u, now) >= MAX_REQUESTS_PER_HOUR
        /\ Decision(u, now).reason = "cooldown"

\* times from t0 on at which the limiter is asked: the clock readings of the
\* model and the two sides of the boundary t0 + d
Around(t0, d) ==
    {x \in Instants : x >= t0} \cup {t0, t0 + 1, t0 + d - 1, t0 + d, t0 + d + 1}

\* C16: with the last grant of u recorded at t0, a check at t is denied for
\* the cooldown when t0 <= t < t0 + COOLDOWN_BETWEEN_REQUESTS, and allowed
\* when t >= t0 + COOLDOWN_BETWEEN_REQUESTS and fewer than
\* MAX_REQUESTS_PER_HOUR stored timestamps are in the window.
C16_CooldownBoundary ==
    \A u \in DOMAIN userCooldowns :
        LET t0 == userCooldowns[u]
        IN  \A t \in Around(t0, COOLDOWN_BETWEEN_REQUESTS) :
                IF t < t0 + COOLDOWN_BETWEEN_REQUESTS
                THEN Decision(u, t).reason = "cooldown"
                ELSE Fresh(u, t) < MAX_REQUESTS_PER_HOUR =>
                         Decision(u, t) = Allowed

\* the clock stands exactly at the end of a cooldown and the user is allowed
C16_Witness ==
    \E u \in DOMAIN userCooldowns :
        /\ now = userCooldowns[u] + COOLDOWN_BETWEEN_REQUESTS
        /\ Fresh(u, now) \in 1..(MAX_REQUESTS_PER_HOUR - 1)
        /\ Decision(u, now) = Allowed

\* C17: a stored timestamp a window or more old does not count in the check,
\* and the check leaves it stored; a user whose only stored timestamp is t0
\* is allowed at every time from t0 + RATE_LIMIT_WINDOW + 1 on.
C17_WindowExpiry ==
    \A u \in DOMAIN userCooldowns :
        LET ts == Timestamps(userRequests, u)
        IN  \A t \in Around(now, RATE_LIMIT_WINDOW) :
                LET chk == checkRateLimit(userRequests, userCooldowns, u, t)
                IN  /\ (chk.decision.reason = "quota") =
                           (/\ t - userCooldowns[u] >= COOLDOWN_BETWEEN_REQUESTS
                            /\ Fresh(u, t) >= MAX_REQUESTS_PER_HOUR)
                    /\ Timestamps(chk.userRequests, u) = ts
                    /\ (Len(ts) = 1 /\ t >= ts[1] + RATE_LIMIT_WINDOW + 1) =>
                           chk.decision = Allowed

\* MAX_REQUESTS_PER_HOUR timestamps are stored, one of them has left the
\* window, and the user is allowed
C17_Witness ==
    \E u \in DOMAIN userCooldowns :
        /\ Len(Timestamps(userRequests, u)) = MAX_REQUESTS_PER_HOUR
        /\ Fresh(u, now) < MAX_REQUESTS_PER_HOUR
        /\ Decision(u, now) = Allowed

\* old is an initial part of new
IsPrefix(old, new) ==
    /\ Len(old) <= Len(new)
    /\ \A k \in 1..Len(old) : new[k] = old[k]

\* C18: updateRateLimit for u at time t stores the previous list plus t
\* without the entries a window or more older than t, and sets the
\* last-request time to t; the entries of other users stay; and a step that
\* removes a stored timestamp of u is the recording of a grant of u.
C18_UpdateRateLimitEffect ==
    /\ [](\A u \in Users :
             \A t \in {x \in Instants : x >= now} :
                 LET old == Timestamps(userRequests, u)
                     upd == updateRateLimit(userRequests, userCooldowns, u, t)
                     new == upd.userRequests[u]
                 IN  /\ new = SelectSeq(Append(old, t),
                                        LAMBDA ts : t - ts < RATE_LIMIT_WINDOW)
                     /\ new[Len(new)] = t
                     /\ upd.userCooldowns[u] = t
                     /\ \A b \in Users \ {u} :
                            /\ Timestamps(upd.userRequests, b)
                                   = Timestamps(userRequests, b)
                            /\ (b \in DOMAIN upd.userCooldowns)
                                   = (b \in DOMAIN userCooldowns)
                            /\ b \in DOMAIN userCooldowns =>
                                   upd.userCooldowns[b] = userCooldowns[b])
    /\ [][\A u \in Users :
             \/ IsPrefix(Timestamps(userRequests, u), Timestamps(userRequests', u))
             \/ \E i \in Slots : /\ ResponseStep(i)
                                 /\ inter[i].user = u
                                 /\ last'.reply = "success"]_vars

\* a grant has just been recorded and an older grant of the user is no
\* longer stored
C18_Witness ==
    \E u \in DOMAIN userCooldowns :
        /\ userCooldowns[u] = now
        /\ last.reply = "success"
        /\ Len(userRequests[u]) < Len(grants[u])
        /\ grants[u][1] < now

\* C19: every user with a last-request time has a non-empty list of stored
\* timestamps; the list is in non-decreasing order and its last element,
\* which is also its largest, is the last-request time.
C19_StateConsistency ==
    \A u \in DOMAIN userCooldowns :
        /\ u \in DOMAIN userRequests
        /\ LET ts == userRequests[u]
           IN  /\ Len(ts) >= 1
               /\ ts[Len(ts)] = userCooldowns[u]
               /\ \A k \in 1..Len(ts) : ts[k] <= userCooldowns[u]
               /\ \A k \in 1..(Len(ts) - 1) : ts[k] <= ts[k + 1]

\* two invocations of one user recorded a grant at the same time, after an
\* earlier grant
C19_Witness ==
    \E u \in DOMAIN userCooldowns :
        LET ts == userRequests[u]
        IN  /\ Len(ts) = 3
            /\ ts[1] < ts[2]
            /\ ts[2] = ts[3]

Max(a, b) == IF a >= b THEN a ELSE b

\* C20: with the last grant of u at t0 and no grant after it, every check
\* at a time from t0 + max(RATE_LIMIT_WINDOW, COOLDOWN_BETWEEN_REQUESTS) on is
\* allowed, and the check itself leaves the stored state as it is.
C20_NoPermanentLockout ==
    \A u \in DOMAIN userCooldowns :
        LET free == userCooldowns[u]
                        + Max(RATE_LIMIT_WINDOW, COOLDOWN_BETWEEN_REQUESTS)
        IN  \A t \in {x \in Instants : x >= free} \cup {free, free + 1} :
                LET chk == checkRateLimit(userRequests, userCooldowns, u, t)
                IN  /\ chk.decision = Allowed
                    /\ chk.userRequests = userRequests
                    /\ chk.userCooldowns = userCooldowns

\* a user is denied for the quota now
C20_Witness ==
    \E u \in DOMAIN userCooldowns :
        /\ Decision(u, now).reason = "quota"
        /\ Fresh(u, userCooldowns[u] + RATE_LIMIT_WINDOW) = 0

=============================================================================
